---- MODULE Spec2Model ----
(***************************************************************************)
(* Model of the notebooks of JontySinai/artificial_neural_networks:        *)
(*   - ConvNet, the configurable architecture builder (conv_net.ipynb):    *)
(*     construction from an OrderedDict and the forward pass, with tensors *)
(*     abstracted to their shapes;                                         *)
(*   - the batched (packed) versus per-sample RNN hidden state comparison; *)
(*   - the two ways of sorting a batch of sequences for packing;           *)
(*   - the train loop.                                                     *)
(* Layer-type keys are sequences of Unicode code points so that the       *)
(* regular-expression substitution of the constructor is computed.         *)
(***************************************************************************)
EXTENDS Integers, Sequences, FiniteSets, TLC

VARIABLES
    arch,       \* arch_dict: sequence of <<layer_type key, layer_params>>
    layers,     \* self.layers
    idx,        \* position of the constructor's loop in arch_dict.items()
    err,        \* exception raised by the constructor, if any
    pc,         \* control state of the ConvNet scenario
    x0,         \* argument of forward
    x,          \* the local x of forward
    fidx,       \* position of forward's loop in self.layers
    applied,    \* the layers forward has called, in call order
    test_inputs,          \* the batch of token sequences
    test_rnn,             \* weights of the recurrent unit
    test_h0,              \* initial hidden state, one per batch index
    test_embedded,        \* embedded padded batch, [time][batch index]
    test_packed_input,    \* PackedSequence: data and batch_sizes
    hx,                   \* hidden states during the batched computation
    step,                 \* time step of the batched computation
    test_output_packed,   \* PackedSequence of the batched outputs
    test_hn_batch,        \* final hidden states of the batched computation
    test_outputs,         \* per-sample outputs
    test_hn_states,       \* per-sample final hidden states
    test_output_unpacked, \* padded batched outputs, [time][batch index]
    rpc,                  \* control state of the RNN scenario
    batch,                  \* list of (input_tensor, target_tensor) pairs
    sort_idx,               \* indices returned by lengths.sort(descending=True)
    input_sorted,           \* padded input gathered by sort_idx
    input_packed,           \* PackedSequence of input_sorted
    input_unpacked,         \* pad_packed_sequence(input_packed)[0]
    orig_idx,               \* indices returned by sort_idx.sort()
    input_restored,         \* input_unpacked gathered by orig_idx
    sorted_batch,           \* sorted(batch, key=..., reverse=True)
    packed_input_presorted, \* PackedSequence of the presorted padded input
    spc,                    \* control state of the batching scenario
    num_epochs,     \* argument of train
    training_data,  \* number of mini-batches the loader yields per epoch
    epoch,          \* for epoch in range(num_epochs)
    order,          \* mini-batches of the current epoch, in loader order
    batch_idx,      \* enumerate(training_data)
    grad,           \* mini-batches whose gradients are accumulated in .grad
    backwards,      \* backward passes since the last zero_grad
    output,         \* mini-batch the current output was computed from
    loss,           \* mini-batch the current loss was computed from
    total_loss,     \* running loss
    updates,        \* gradients the optimiser has applied, in step order
    tpc             \* control state of train

netVars == <<arch, layers, idx, err, pc, x0, x, fidx, applied>>

rnnVars ==
    <<test_inputs, test_rnn, test_h0, test_embedded, test_packed_input, hx,
      step, test_output_packed, test_hn_batch, test_outputs, test_hn_states,
      test_output_unpacked, rpc>>

sortVars ==
    <<batch, sort_idx, input_sorted, input_packed, input_unpacked, orig_idx,
      input_restored, sorted_batch, packed_input_presorted, spc>>

trainVars ==
    <<num_epochs, training_data, epoch, order, batch_idx, grad, backwards,
      output, loss, total_loss, updates, tpc>>

vars == <<netVars, rnnVars, sortVars, trainVars>>

\* the ConvNet scenario has not been started
NetIdle ==
    /\ arch = <<>>
    /\ layers = <<>>
    /\ idx = 0
    /\ err = [raised |-> FALSE, exc |-> "", layer_type |-> <<>>]
    /\ pc = "idle"
    /\ x0 = <<>>
    /\ x = <<>>
    /\ fidx = 0
    /\ applied = <<>>

\* the RNN scenario has not been started
RnnIdle ==
    /\ test_inputs = <<>>
    /\ test_rnn = <<>>
    /\ test_h0 = <<>>
    /\ test_embedded = <<>>
    /\ test_packed_input = <<>>
    /\ hx = <<>>
    /\ step = 0
    /\ test_output_packed = <<>>
    /\ test_hn_batch = <<>>
    /\ test_outputs = <<>>
    /\ test_hn_states = <<>>
    /\ test_output_unpacked = <<>>
    /\ rpc = "idle"

\* the batching scenario has not been started
SortIdle ==
    /\ batch = <<>>
    /\ sort_idx = <<>>
    /\ input_sorted = <<>>
    /\ input_packed = <<>>
    /\ input_unpacked = <<>>
    /\ orig_idx = <<>>
    /\ input_restored = <<>>
    /\ sorted_batch = <<>>
    /\ packed_input_presorted = <<>>
    /\ spc = "idle"

\* train has not been called
TrainIdle ==
    /\ num_epochs = 0
    /\ training_data = 0
    /\ epoch = 0
    /\ order = <<>>
    /\ batch_idx = 0
    /\ grad = <<>>
    /\ backwards = 0
    /\ output = 0
    /\ loss = 0
    /\ total_loss = 0
    /\ updates = <<>>
    /\ tpc = "idle"

----
(* Bounds *)
MaxLayers == 2
MaxBatch == 2

----
(* Characters and layer-type keys *)

\* A character is its Unicode code point and a key the sequence of its
\* code points.

\* the printable ASCII characters in code point order: U+0020 to U+005F and
\* U+0061 to U+007E (U+0060 cannot be written in a string here)
AsciiLow ==
    <<
      " ", "!", "\"", "#", "$", "%", "&", "'", "(", ")", "*", "+",
      ",", "-", ".", "/", "0", "1", "2", "3", "4", "5", "6", "7",
      "8", "9", ":", ";", "<", "=", ">", "?", "@", "A", "B", "C",
      "D", "E", "F", "G", "H", "I", "J", "K", "L", "M", "N", "O",
      "P", "Q", "R", "S", "T", "U", "V", "W", "X", "Y", "Z", "[",
      "\\", "]", "^", "_" >>

AsciiHigh ==
    <<
      "a", "b", "c", "d", "e", "f", "g", "h", "i", "j", "k", "l",
      "m", "n", "o", "p", "q", "r", "s", "t", "u", "v", "w", "x",
      "y", "z", "{", "|", "}", "~" >>

\* ord(c) of an ASCII character
Ord(c) ==
    CHOOSE n \in (32..95) \cup (97..126) :
        (IF n <= 95 THEN AsciiLow[n - 31] ELSE AsciiHigh[n - 96]) = c

\* the code points of a string given character by character
Str(s) == [i \in 1..Len(s) |-> Ord(s[i])]

K_Conv2d    == Str(<<"C", "o", "n", "v", "2", "d">>)
K_AvgPool2d == Str(<<"A", "v", "g", "P", "o", "o", "l", "2", "d">>)
K_MaxPool2d == Str(<<"M", "a", "x", "P", "o", "o", "l", "2", "d">>)
K_Flatten   == Str(<<"F", "l", "a", "t", "t", "e", "n">>)
K_Linear    == Str(<<"L", "i", "n", "e", "a", "r">>)
K_ReLU      == Str(<<"R", "e", "L", "U">>)
K_Sigmoid   == Str(<<"S", "i", "g", "m", "o", "i", "d">>)
K_Sigmod    == Str(<<"S", "i", "g", "m", "o", "d">>)
K_Tanh      == Str(<<"T", "a", "n", "h">>)
K_Dropout   == Str(<<"D", "r", "o", "p", "o", "u", "t">>)

\* the layer types the docstring of ConvNet.__init__ lists as supported
DocTypes ==
    {K_Conv2d, K_AvgPool2d, K_MaxPool2d, K_Flatten, K_Linear, K_ReLU,
     K_Sigmoid, K_Tanh}

\* the nn class the docstring names for a supported layer type
ClassOf(t) ==
    CASE t = K_Conv2d    -> "Conv2d"
      [] t = K_AvgPool2d -> "AvgPool2d"
      [] t = K_MaxPool2d -> "MaxPool2d"
      [] t = K_Flatten   -> "Flatten"
      [] t = K_Linear    -> "Linear"
      [] t = K_ReLU      -> "ReLU"
      [] t = K_Sigmoid   -> "Sigmoid"
      [] t = K_Tanh      -> "Tanh"

\* number of integers the docstring gives for a layer type (0: None)
Arity(t) ==
    CASE t = K_Conv2d    -> 5
      [] t = K_AvgPool2d -> 3
      [] t = K_MaxPool2d -> 3
      [] t = K_Linear    -> 2
      [] OTHER           -> 0

----
(* layer_params: None or a tuple of integers *)
None == [none |-> TRUE, t |-> <<>>]
Tup(t) == [none |-> FALSE, t |-> t]

----
(* re.sub(r"_[\d\w]+", "", layer_type) *)

\* The pattern is a str pattern compiled without re.ASCII, so its classes are
\* the Unicode ones.  The tables list, as inclusive code point ranges, the
\* characters the classes match in CPython 3.11 (Unicode 14.0.0).

\* the character class \d: the decimal digits of every script
DigitRanges ==
    {<<48, 57>>, <<1632, 1641>>, <<1776, 1785>>, <<1984, 1993>>,
     <<2406, 2415>>, <<2534, 2543>>, <<2662, 2671>>, <<2790, 2799>>,
     <<2918, 2927>>, <<3046, 3055>>, <<3174, 3183>>, <<3302, 3311>>,
     <<3430, 3439>>, <<3558, 3567>>, <<3664, 3673>>, <<3792, 3801>>,
     <<3872, 3881>>, <<4160, 4169>>, <<4240, 4249>>, <<6112, 6121>>,
     <<6160, 6169>>, <<6470, 6479>>, <<6608, 6617>>, <<6784, 6793>>,
     <<6800, 6809>>, <<6992, 7001>>, <<7088, 7097>>, <<7232, 7241>>,
     <<7248, 7257>>, <<42528, 42537>>, <<43216, 43225>>, <<43264, 43273>>,
     <<43472, 43481>>, <<43504, 43513>>, <<43600, 43609>>, <<44016, 44025>>,
     <<65296, 65305>>, <<66720, 66729>>, <<68912, 68921>>, <<69734, 69743>>,
     <<69872, 69881>>, <<69942, 69951>>, <<70096, 70105>>, <<70384, 70393>>,
     <<70736, 70745>>, <<70864, 70873>>, <<71248, 71257>>, <<71360, 71369>>,
     <<71472, 71481>>, <<71904, 71913>>, <<72016, 72025>>, <<72784, 72793>>,
     <<73040, 73049>>, <<73120, 73129>>, <<92768, 92777>>, <<92864, 92873>>,
     <<93008, 93017>>, <<120782, 120831>>, <<123200, 123209>>,
     <<123632, 123641>>, <<125264, 125273>>, <<130032, 130041>>}

\* the character class \w: the alphanumeric characters of every script and
\* the underscore
WordRanges ==
    {<<48, 57>>, <<65, 90>>, <<95, 95>>, <<97, 122>>, <<170, 170>>,
     <<178, 179>>, <<181, 181>>, <<185, 186>>, <<188, 190>>, <<192, 214>>,
     <<216, 246>>, <<248, 705>>, <<710, 721>>, <<736, 740>>, <<748, 748>>,
     <<750, 750>>, <<880, 884>>, <<886, 887>>, <<890, 893>>, <<895, 895>>,
     <<902, 902>>, <<904, 906>>, <<908, 908>>, <<910, 929>>, <<931, 1013>>,
     <<1015, 1153>>, <<1162, 1327>>, <<1329, 1366>>, <<1369, 1369>>,
     <<1376, 1416>>, <<1488, 1514>>, <<1519, 1522>>, <<1568, 1610>>,
     <<1632, 1641>>, <<1646, 1647>>, <<1649, 1747>>, <<1749, 1749>>,
     <<1765, 1766>>, <<1774, 1788>>, <<1791, 1791>>, <<1808, 1808>>,
     <<1810, 1839>>, <<1869, 1957>>, <<1969, 1969>>, <<1984, 2026>>,
     <<2036, 2037>>, <<2042, 2042>>, <<2048, 2069>>, <<2074, 2074>>,
     <<2084, 2084>>, <<2088, 2088>>, <<2112, 2136>>, <<2144, 2154>>,
     <<2160, 2183>>, <<2185, 2190>>, <<2208, 2249>>, <<2308, 2361>>,
     <<2365, 2365>>, <<2384, 2384>>, <<2392, 2401>>, <<2406, 2415>>,
     <<2417, 2432>>, <<2437, 2444>>, <<2447, 2448>>, <<2451, 2472>>,
     <<2474, 2480>>, <<2482, 2482>>, <<2486, 2489>>, <<2493, 2493>>,
     <<2510, 2510>>, <<2524, 2525>>, <<2527, 2529>>, <<2534, 2545>>,
     <<2548, 2553>>, <<2556, 2556>>, <<2565, 2570>>, <<2575, 2576>>,
     <<2579, 2600>>, <<2602, 2608>>, <<2610, 2611>>, <<2613, 2614>>,
     <<2616, 2617>>, <<2649, 2652>>, <<2654, 2654>>, <<2662, 2671>>,
     <<2674, 2676>>, <<2693, 2701>>, <<2703, 2705>>, <<2707, 2728>>,
     <<2730, 2736>>, <<2738, 2739>>, <<2741, 2745>>, <<2749, 2749>>,
     <<2768, 2768>>, <<2784, 2785>>, <<2790, 2799>>, <<2809, 2809>>,
     <<2821, 2828>>, <<2831, 2832>>, <<2835, 2856>>, <<2858, 2864>>,
     <<2866, 2867>>, <<2869, 2873>>, <<2877, 2877>>, <<2908, 2909>>,
     <<2911, 2913>>, <<2918, 2927>>, <<2929, 2935>>, <<2947, 2947>>,
     <<2949, 2954>>, <<2958, 2960>>, <<2962, 2965>>, <<2969, 2970>>,
     <<2972, 2972>>, <<2974, 2975>>, <<2979, 2980>>, <<2984, 2986>>,
     <<2990, 3001>>, <<3024, 3024>>, <<3046, 3058>>, <<3077, 3084>>,
     <<3086, 3088>>, <<3090, 3112>>, <<3114, 3129>>, <<3133, 3133>>,
     <<3160, 3162>>, <<3165, 3165>>, <<3168, 3169>>, <<3174, 3183>>,
     <<3192, 3198>>, <<3200, 3200>>, <<3205, 3212>>, <<3214, 3216>>,
     <<3218, 3240>>, <<3242, 3251>>, <<3253, 3257>>, <<3261, 3261>>,
     <<3293, 3294>>, <<3296, 3297>>, <<3302, 3311>>, <<3313, 3314>>,
     <<3332, 3340>>, <<3342, 3344>>, <<3346, 3386>>, <<3389, 3389>>,
     <<3406, 3406>>, <<3412, 3414>>, <<3416, 3425>>, <<3430, 3448>>,
     <<3450, 3455>>, <<3461, 3478>>, <<3482, 3505>>, <<3507, 3515>>,
     <<3517, 3517>>, <<3520, 3526>>, <<3558, 3567>>, <<3585, 3632>>,
     <<3634, 3635>>, <<3648, 3654>>, <<3664, 3673>>, <<3713, 3714>>,
     <<3716, 3716>>, <<3718, 3722>>, <<3724, 3747>>, <<3749, 3749>>,
     <<3751, 3760>>, <<3762, 3763>>, <<3773, 3773>>, <<3776, 3780>>,
     <<3782, 3782>>, <<3792, 3801>>, <<3804, 3807>>, <<3840, 3840>>,
     <<3872, 3891>>, <<3904, 3911>>, <<3913, 3948>>, <<3976, 3980>>,
     <<4096, 4138>>, <<4159, 4169>>, <<4176, 4181>>, <<4186, 4189>>,
     <<4193, 4193>>, <<4197, 4198>>, <<4206, 4208>>, <<4213, 4225>>,
     <<4238, 4238>>, <<4240, 4249>>, <<4256, 4293>>, <<4295, 4295>>,
     <<4301, 4301>>, <<4304, 4346>>, <<4348, 4680>>, <<4682, 4685>>,
     <<4688, 4694>>, <<4696, 4696>>, <<4698, 4701>>, <<4704, 4744>>,
     <<4746, 4749>>, <<4752, 4784>>, <<4786, 4789>>, <<4792, 4798>>,
     <<4800, 4800>>, <<4802, 4805>>, <<4808, 4822>>, <<4824, 4880>>,
     <<4882, 4885>>, <<4888, 4954>>, <<4969, 4988>>, <<4992, 5007>>,
     <<5024, 5109>>, <<5112, 5117>>, <<5121, 5740>>, <<5743, 5759>>,
     <<5761, 5786>>, <<5792, 5866>>, <<5870, 5880>>, <<5888, 5905>>,
     <<5919, 5937>>, <<5952, 5969>>, <<5984, 5996>>, <<5998, 6000>>,
     <<6016, 6067>>, <<6103, 6103>>, <<6108, 6108>>, <<6112, 6121>>,
     <<6128, 6137>>, <<6160, 6169>>, <<6176, 6264>>, <<6272, 6276>>,
     <<6279, 6312>>, <<6314, 6314>>, <<6320, 6389>>, <<6400, 6430>>,
     <<6470, 6509>>, <<6512, 6516>>, <<6528, 6571>>, <<6576, 6601>>,
     <<6608, 6618>>, <<6656, 6678>>, <<6688, 6740>>, <<6784, 6793>>,
     <<6800, 6809>>, <<6823, 6823>>, <<6917, 6963>>, <<6981, 6988>>,
     <<6992, 7001>>, <<7043, 7072>>, <<7086, 7141>>, <<7168, 7203>>,
     <<7232, 7241>>, <<7245, 7293>>, <<7296, 7304>>, <<7312, 7354>>,
     <<7357, 7359>>, <<7401, 7404>>, <<7406, 7411>>, <<7413, 7414>>,
     <<7418, 7418>>, <<7424, 7615>>, <<7680, 7957>>, <<7960, 7965>>,
     <<7968, 8005>>, <<8008, 8013>>, <<8016, 8023>>, <<8025, 8025>>,
     <<8027, 8027>>, <<8029, 8029>>, <<8031, 8061>>, <<8064, 8116>>,
     <<8118, 8124>>, <<8126, 8126>>, <<8130, 8132>>, <<8134, 8140>>,
     <<8144, 8147>>, <<8150, 8155>>, <<8160, 8172>>, <<8178, 8180>>,
     <<8182, 8188>>, <<8304, 8305>>, <<8308, 8313>>, <<8319, 8329>>,
     <<8336, 8348>>, <<8450, 8450>>, <<8455, 8455>>, <<8458, 8467>>,
     <<8469, 8469>>, <<8473, 8477>>, <<8484, 8484>>, <<8486, 8486>>,
     <<8488, 8488>>, <<8490, 8493>>, <<8495, 8505>>, <<8508, 8511>>,
     <<8517, 8521>>, <<8526, 8526>>, <<8528, 8585>>, <<9312, 9371>>,
     <<9450, 9471>>, <<10102, 10131>>, <<11264, 11492>>, <<11499, 11502>>,
     <<11506, 11507>>, <<11517, 11517>>, <<11520, 11557>>, <<11559, 11559>>,
     <<11565, 11565>>, <<11568, 11623>>, <<11631, 11631>>, <<11648, 11670>>,
     <<11680, 11686>>, <<11688, 11694>>, <<11696, 11702>>, <<11704, 11710>>,
     <<11712, 11718>>, <<11720, 11726>>, <<11728, 11734>>, <<11736, 11742>>,
     <<11823, 11823>>, <<12293, 12295>>, <<12321, 12329>>, <<12337, 12341>>,
     <<12344, 12348>>, <<12353, 12438>>, <<12445, 12447>>, <<12449, 12538>>,
     <<12540, 12543>>, <<12549, 12591>>, <<12593, 12686>>, <<12690, 12693>>,
     <<12704, 12735>>, <<12784, 12799>>, <<12832, 12841>>, <<12872, 12879>>,
     <<12881, 12895>>, <<12928, 12937>>, <<12977, 12991>>, <<13312, 19903>>,
     <<19968, 42124>>, <<42192, 42237>>, <<42240, 42508>>, <<42512, 42539>>,
     <<42560, 42606>>, <<42623, 42653>>, <<42656, 42735>>, <<42775, 42783>>,
     <<42786, 42888>>, <<42891, 42954>>, <<42960, 42961>>, <<42963, 42963>>,
     <<42965, 42969>>, <<42994, 43009>>, <<43011, 43013>>, <<43015, 43018>>,
     <<43020, 43042>>, <<43056, 43061>>, <<43072, 43123>>, <<43138, 43187>>,
     <<43216, 43225>>, <<43250, 43255>>, <<43259, 43259>>, <<43261, 43262>>,
     <<43264, 43301>>, <<43312, 43334>>, <<43360, 43388>>, <<43396, 43442>>,
     <<43471, 43481>>, <<43488, 43492>>, <<43494, 43518>>, <<43520, 43560>>,
     <<43584, 43586>>, <<43588, 43595>>, <<43600, 43609>>, <<43616, 43638>>,
     <<43642, 43642>>, <<43646, 43695>>, <<43697, 43697>>, <<43701, 43702>>,
     <<43705, 43709>>, <<43712, 43712>>, <<43714, 43714>>, <<43739, 43741>>,
     <<43744, 43754>>, <<43762, 43764>>, <<43777, 43782>>, <<43785, 43790>>,
     <<43793, 43798>>, <<43808, 43814>>, <<43816, 43822>>, <<43824, 43866>>,
     <<43868, 43881>>, <<43888, 44002>>, <<44016, 44025>>, <<44032, 55203>>,
     <<55216, 55238>>, <<55243, 55291>>, <<63744, 64109>>, <<64112, 64217>>,
     <<64256, 64262>>, <<64275, 64279>>, <<64285, 64285>>, <<64287, 64296>>,
     <<64298, 64310>>, <<64312, 64316>>, <<64318, 64318>>, <<64320, 64321>>,
     <<64323, 64324>>, <<64326, 64433>>, <<64467, 64829>>, <<64848, 64911>>,
     <<64914, 64967>>, <<65008, 65019>>, <<65136, 65140>>, <<65142, 65276>>,
     <<65296, 65305>>, <<65313, 65338>>, <<65345, 65370>>, <<65382, 65470>>,
     <<65474, 65479>>, <<65482, 65487>>, <<65490, 65495>>, <<65498, 65500>>,
     <<65536, 65547>>, <<65549, 65574>>, <<65576, 65594>>, <<65596, 65597>>,
     <<65599, 65613>>, <<65616, 65629>>, <<65664, 65786>>, <<65799, 65843>>,
     <<65856, 65912>>, <<65930, 65931>>, <<66176, 66204>>, <<66208, 66256>>,
     <<66273, 66299>>, <<66304, 66339>>, <<66349, 66378>>, <<66384, 66421>>,
     <<66432, 66461>>, <<66464, 66499>>, <<66504, 66511>>, <<66513, 66517>>,
     <<66560, 66717>>, <<66720, 66729>>, <<66736, 66771>>, <<66776, 66811>>,
     <<66816, 66855>>, <<66864, 66915>>, <<66928, 66938>>, <<66940, 66954>>,
     <<66956, 66962>>, <<66964, 66965>>, <<66967, 66977>>, <<66979, 66993>>,
     <<66995, 67001>>, <<67003, 67004>>, <<67072, 67382>>, <<67392, 67413>>,
     <<67424, 67431>>, <<67456, 67461>>, <<67463, 67504>>, <<67506, 67514>>,
     <<67584, 67589>>, <<67592, 67592>>, <<67594, 67637>>, <<67639, 67640>>,
     <<67644, 67644>>, <<67647, 67669>>, <<67672, 67702>>, <<67705, 67742>>,
     <<67751, 67759>>, <<67808, 67826>>, <<67828, 67829>>, <<67835, 67867>>,
     <<67872, 67897>>, <<67968, 68023>>, <<68028, 68047>>, <<68050, 68096>>,
     <<68112, 68115>>, <<68117, 68119>>, <<68121, 68149>>, <<68160, 68168>>,
     <<68192, 68222>>, <<68224, 68255>>, <<68288, 68295>>, <<68297, 68324>>,
     <<68331, 68335>>, <<68352, 68405>>, <<68416, 68437>>, <<68440, 68466>>,
     <<68472, 68497>>, <<68521, 68527>>, <<68608, 68680>>, <<68736, 68786>>,
     <<68800, 68850>>, <<68858, 68899>>, <<68912, 68921>>, <<69216, 69246>>,
     <<69248, 69289>>, <<69296, 69297>>, <<69376, 69415>>, <<69424, 69445>>,
     <<69457, 69460>>, <<69488, 69505>>, <<69552, 69579>>, <<69600, 69622>>,
     <<69635, 69687>>, <<69714, 69743>>, <<69745, 69746>>, <<69749, 69749>>,
     <<69763, 69807>>, <<69840, 69864>>, <<69872, 69881>>, <<69891, 69926>>,
     <<69942, 69951>>, <<69956, 69956>>, <<69959, 69959>>, <<69968, 70002>>,
     <<70006, 70006>>, <<70019, 70066>>, <<70081, 70084>>, <<70096, 70106>>,
     <<70108, 70108>>, <<70113, 70132>>, <<70144, 70161>>, <<70163, 70187>>,
     <<70272, 70278>>, <<70280, 70280>>, <<70282, 70285>>, <<70287, 70301>>,
     <<70303, 70312>>, <<70320, 70366>>, <<70384, 70393>>, <<70405, 70412>>,
     <<70415, 70416>>, <<70419, 70440>>, <<70442, 70448>>, <<70450, 70451>>,
     <<70453, 70457>>, <<70461, 70461>>, <<70480, 70480>>, <<70493, 70497>>,
     <<70656, 70708>>, <<70727, 70730>>, <<70736, 70745>>, <<70751, 70753>>,
     <<70784, 70831>>, <<70852, 70853>>, <<70855, 70855>>, <<70864, 70873>>,
     <<71040, 71086>>, <<71128, 71131>>, <<71168, 71215>>, <<71236, 71236>>,
     <<71248, 71257>>, <<71296, 71338>>, <<71352, 71352>>, <<71360, 71369>>,
     <<71424, 71450>>, <<71472, 71483>>, <<71488, 71494>>, <<71680, 71723>>,
     <<71840, 71922>>, <<71935, 71942>>, <<71945, 71945>>, <<71948, 71955>>,
     <<71957, 71958>>, <<71960, 71983>>, <<71999, 71999>>, <<72001, 72001>>,
     <<72016, 72025>>, <<72096, 72103>>, <<72106, 72144>>, <<72161, 72161>>,
     <<72163, 72163>>, <<72192, 72192>>, <<72203, 72242>>, <<72250, 72250>>,
     <<72272, 72272>>, <<72284, 72329>>, <<72349, 72349>>, <<72368, 72440>>,
     <<72704, 72712>>, <<72714, 72750>>, <<72768, 72768>>, <<72784, 72812>>,
     <<72818, 72847>>, <<72960, 72966>>, <<72968, 72969>>, <<72971, 73008>>,
     <<73030, 73030>>, <<73040, 73049>>, <<73056, 73061>>, <<73063, 73064>>,
     <<73066, 73097>>, <<73112, 73112>>, <<73120, 73129>>, <<73440, 73458>>,
     <<73648, 73648>>, <<73664, 73684>>, <<73728, 74649>>, <<74752, 74862>>,
     <<74880, 75075>>, <<77712, 77808>>, <<77824, 78894>>, <<82944, 83526>>,
     <<92160, 92728>>, <<92736, 92766>>, <<92768, 92777>>, <<92784, 92862>>,
     <<92864, 92873>>, <<92880, 92909>>, <<92928, 92975>>, <<92992, 92995>>,
     <<93008, 93017>>, <<93019, 93025>>, <<93027, 93047>>, <<93053, 93071>>,
     <<93760, 93846>>, <<93952, 94026>>, <<94032, 94032>>, <<94099, 94111>>,
     <<94176, 94177>>, <<94179, 94179>>, <<94208, 100343>>,
     <<100352, 101589>>, <<101632, 101640>>, <<110576, 110579>>,
     <<110581, 110587>>, <<110589, 110590>>, <<110592, 110882>>,
     <<110928, 110930>>, <<110948, 110951>>, <<110960, 111355>>,
     <<113664, 113770>>, <<113776, 113788>>, <<113792, 113800>>,
     <<113808, 113817>>, <<119520, 119539>>, <<119648, 119672>>,
     <<119808, 119892>>, <<119894, 119964>>, <<119966, 119967>>,
     <<119970, 119970>>, <<119973, 119974>>, <<119977, 119980>>,
     <<119982, 119993>>, <<119995, 119995>>, <<119997, 120003>>,
     <<120005, 120069>>, <<120071, 120074>>, <<120077, 120084>>,
     <<120086, 120092>>, <<120094, 120121>>, <<120123, 120126>>,
     <<120128, 120132>>, <<120134, 120134>>, <<120138, 120144>>,
     <<120146, 120485>>, <<120488, 120512>>, <<120514, 120538>>,
     <<120540, 120570>>, <<120572, 120596>>, <<120598, 120628>>,
     <<120630, 120654>>, <<120656, 120686>>, <<120688, 120712>>,
     <<120714, 120744>>, <<120746, 120770>>, <<120772, 120779>>,
     <<120782, 120831>>, <<122624, 122654>>, <<123136, 123180>>,
     <<123191, 123197>>, <<123200, 123209>>, <<123214, 123214>>,
     <<123536, 123565>>, <<123584, 123627>>, <<123632, 123641>>,
     <<124896, 124902>>, <<124904, 124907>>, <<124909, 124910>>,
     <<124912, 124926>>, <<124928, 125124>>, <<125127, 125135>>,
     <<125184, 125251>>, <<125259, 125259>>, <<125264, 125273>>,
     <<126065, 126123>>, <<126125, 126127>>, <<126129, 126132>>,
     <<126209, 126253>>, <<126255, 126269>>, <<126464, 126467>>,
     <<126469, 126495>>, <<126497, 126498>>, <<126500, 126500>>,
     <<126503, 126503>>, <<126505, 126514>>, <<126516, 126519>>,
     <<126521, 126521>>, <<126523, 126523>>, <<126530, 126530>>,
     <<126535, 126535>>, <<126537, 126537>>, <<126539, 126539>>,
     <<126541, 126543>>, <<126545, 126546>>, <<126548, 126548>>,
     <<126551, 126551>>, <<126553, 126553>>, <<126555, 126555>>,
     <<126557, 126557>>, <<126559, 126559>>, <<126561, 126562>>,
     <<126564, 126564>>, <<126567, 126570>>, <<126572, 126578>>,
     <<126580, 126583>>, <<126585, 126588>>, <<126590, 126590>>,
     <<126592, 126601>>, <<126603, 126619>>, <<126625, 126627>>,
     <<126629, 126633>>, <<126635, 126651>>, <<127232, 127244>>,
     <<130032, 130041>>, <<131072, 173791>>, <<173824, 177976>>,
     <<177984, 178205>>, <<178208, 183969>>, <<183984, 191456>>,
     <<194560, 195101>>, <<196608, 201546>>}

InRanges(c, ranges) == \E r \in ranges : r[1] <= c /\ c <= r[2]

\* the character class \d alone
IsDigit(c) == InRanges(c, DigitRanges)

\* the character class [\d\w]
IsWord(c) == InRanges(c, DigitRanges) \/ InRanges(c, WordRanges)

\* greedy +: index of the last character of the run of class characters
\* that starts at j
RECURSIVE MatchEnd(_, _)
MatchEnd(s, j) ==
    IF j + 1 <= Len(s) /\ IsWord(s[j + 1]) THEN MatchEnd(s, j + 1) ELSE j

\* leftmost non-overlapping matches from position i on, each replaced by ""
RECURSIVE ReSubFrom(_, _)
ReSubFrom(s, i) ==
    IF i > Len(s) THEN <<>>
    ELSE IF s[i] = Ord("_") /\ i + 1 <= Len(s) /\ IsWord(s[i + 1])
         THEN ReSubFrom(s, MatchEnd(s, i + 1) + 1)
         ELSE <<s[i]>> \o ReSubFrom(s, i + 1)

ReSub(s) == ReSubFrom(s, 1)

----
(* One iteration of the constructor's loop *)

NoError == [raised |-> FALSE, exc |-> "", layer_type |-> <<>>]
UnpackError(p) ==
    [raised |-> TRUE,
     exc |-> IF p.none THEN "TypeError" ELSE "ValueError",
     layer_type |-> <<>>]
Unsupported(t) == [raised |-> TRUE, exc |-> "ValueError", layer_type |-> t]

Layer(class, args) == [type |-> class, args |-> args]

\* a, b, ... = layer_params with n targets
CanUnpack(p, n) == ~p.none /\ Len(p.t) = n

Built(l) == [err |-> NoError, layer |-> <<l>>]
Raised(e) == [err |-> e, layer |-> <<>>]

\* the if/elif chain on the stripped layer_type
BuildLayer(layer_type, layer_params) ==
    IF layer_type = K_Conv2d THEN
        IF CanUnpack(layer_params, 5)
        THEN Built(Layer("Conv2d", layer_params.t))
        ELSE Raised(UnpackError(layer_params))
    ELSE IF layer_type = K_AvgPool2d THEN
        IF CanUnpack(layer_params, 3)
        THEN Built(Layer("AvgPool2d", layer_params.t))
        ELSE Raised(UnpackError(layer_params))
    ELSE IF layer_type = K_MaxPool2d THEN
        IF CanUnpack(layer_params, 3)
        THEN Built(Layer("MaxPool2d", layer_params.t))
        ELSE Raised(UnpackError(layer_params))
    ELSE IF layer_type = K_Flatten THEN Built(Layer("Flatten", <<>>))
    ELSE IF layer_type = K_Linear THEN
        IF CanUnpack(layer_params, 2)
        THEN Built(Layer("Linear", layer_params.t))
        ELSE Raised(UnpackError(layer_params))
    ELSE IF layer_type = K_ReLU THEN Built(Layer("ReLU", <<>>))
    ELSE IF layer_type = K_Sigmod THEN Built(Layer("Sigmoid", <<>>))
    ELSE IF layer_type = K_Tanh THEN Built(Layer("Tanh", <<>>))
    ELSE Raised(Unsupported(layer_type))

----
(* Tensors are abstracted to their shapes; layer(x) on shapes *)

\* the outcome of a layer call that raises
ShapeErr == <<>>

\* output size of a convolution or pooling window along one dimension
OutSize(n, kernel_size, stride, padding) ==
    ((n + 2 * padding - kernel_size) \div stride) + 1

\* nn.Conv2d(in_channels, out_channels, kernel_size, stride, padding)(x)
Conv2dShape(a, s) ==
    IF /\ Len(s) = 4
       /\ s[2] = a[1]
       /\ s[3] + 2 * a[5] >= a[3]
       /\ s[4] + 2 * a[5] >= a[3]
    THEN <<s[1], a[2], OutSize(s[3], a[3], a[4], a[5]),
           OutSize(s[4], a[3], a[4], a[5])>>
    ELSE ShapeErr

\* nn.AvgPool2d / nn.MaxPool2d (kernel_size, stride, padding)(x)
Pool2dShape(a, s) ==
    IF /\ Len(s) = 4
       /\ 2 * a[3] <= a[1]
       /\ s[3] + 2 * a[3] >= a[1]
       /\ s[4] + 2 * a[3] >= a[1]
    THEN <<s[1], s[2], OutSize(s[3], a[1], a[2], a[3]),
           OutSize(s[4], a[1], a[2], a[3])>>
    ELSE ShapeErr

RECURSIVE Prod(_, _)
Prod(s, i) == IF i > Len(s) THEN 1 ELSE s[i] * Prod(s, i + 1)

\* Flatten.forward: x.view(x.size()[0], -1)
FlattenShape(s) == <<s[1], Prod(s, 2)>>

\* nn.Linear(input_size, output_size)(x)
LinearShape(a, s) ==
    IF s[Len(s)] = a[1] THEN [s EXCEPT ![Len(s)] = a[2]] ELSE ShapeErr

\* layer(x)
ApplyLayer(layer, s) ==
    IF s = ShapeErr THEN ShapeErr
    ELSE CASE layer.type = "Conv2d"    -> Conv2dShape(layer.args, s)
           [] layer.type = "AvgPool2d" -> Pool2dShape(layer.args, s)
           [] layer.type = "MaxPool2d" -> Pool2dShape(layer.args, s)
           [] layer.type = "Flatten"   -> FlattenShape(s)
           [] layer.type = "Linear"    -> LinearShape(layer.args, s)
           [] OTHER                    -> s

\* a loop that walks self.layers from the end
ForwardLayerReversed(ls, k) == ls[Len(ls) - k + 1]

\* the layer that iteration k of forward's loop calls
ForwardLayer(ls, k) == ls[k]

----
(* The architectures of the notebook *)

S_1  == Str(<<"_", "1">>)
S_2  == Str(<<"_", "2">>)
S_3  == Str(<<"_", "3">>)
S_4  == Str(<<"_", "4">>)
S_5  == Str(<<"_", "5">>)
S_6  == Str(<<"_", "6">>)
S_1a == Str(<<"_", "1", "a">>)
S_1b == Str(<<"_", "1", "b">>)
S_2a == Str(<<"_", "2", "a">>)
S_2b == Str(<<"_", "2", "b">>)

\* LeNet-5 as published: no padding in the first convolution
lenet5_arch_unpadded ==
    << <<K_Conv2d \o S_1, Tup(<<1, 6, 5, 1, 0>>)>>,
       <<K_Tanh \o S_1a, None>>,
       <<K_AvgPool2d \o S_1, Tup(<<2, 2, 0>>)>>,
       <<K_Tanh \o S_1b, None>>,
       <<K_Conv2d \o S_2, Tup(<<6, 16, 5, 1, 0>>)>>,
       <<K_Tanh \o S_2a, None>>,
       <<K_AvgPool2d \o S_2, Tup(<<2, 2, 0>>)>>,
       <<K_Tanh \o S_2b, None>>,
       <<K_Flatten \o S_3, None>>,
       <<K_Linear \o S_4, Tup(<<400, 120>>)>>,
       <<K_Tanh \o S_4, None>>,
       <<K_Linear \o S_5, Tup(<<120, 84>>)>>,
       <<K_Tanh \o S_5, None>>,
       <<K_Linear \o S_6, Tup(<<84, 10>>)>> >>

lenet5_arch ==
    << <<K_Conv2d \o S_1, Tup(<<1, 6, 5, 1, 2>>)>>,
       <<K_Tanh \o S_1a, None>>,
       <<K_AvgPool2d \o S_1, Tup(<<2, 2, 0>>)>>,
       <<K_Tanh \o S_1b, None>>,
       <<K_Conv2d \o S_2, Tup(<<6, 16, 5, 1, 0>>)>>,
       <<K_Tanh \o S_2a, None>>,
       <<K_AvgPool2d \o S_2, Tup(<<2, 2, 0>>)>>,
       <<K_Tanh \o S_2b, None>>,
       <<K_Flatten \o S_3, None>>,
       <<K_Linear \o S_4, Tup(<<400, 120>>)>>,
       <<K_Tanh \o S_4, None>>,
       <<K_Linear \o S_5, Tup(<<120, 84>>)>>,
       <<K_Tanh \o S_5, None>>,
       <<K_Linear \o S_6, Tup(<<84, 10>>)>> >>

lenet5_arch_cifar10 ==
    << <<K_Conv2d \o S_1, Tup(<<3, 6, 5, 1, 0>>)>>,
       <<K_Tanh \o S_1a, None>>,
       <<K_AvgPool2d \o S_1, Tup(<<2, 2, 0>>)>>,
       <<K_Tanh \o S_1b, None>>,
       <<K_Conv2d \o S_2, Tup(<<6, 16, 5, 1, 0>>)>>,
       <<K_Tanh \o S_2a, None>>,
       <<K_AvgPool2d \o S_2, Tup(<<2, 2, 0>>)>>,
       <<K_Tanh \o S_2b, None>>,
       <<K_Flatten \o S_3, None>>,
       <<K_Linear \o S_4, Tup(<<1176, 512>>)>>,
       <<K_Tanh \o S_4, None>>,
       <<K_Linear \o S_5, Tup(<<512>>)>>,
       <<K_Tanh \o S_5, None>>,
       <<K_Linear \o S_6, Tup(<<84, 10>>)>> >>

----
(* Inputs: architecture specifications and image batches *)

\* parameters of the documented form for a supported layer type
DocParams(t) ==
    CASE t = K_Conv2d    -> Tup(<<1, 6, 5, 1, 2>>)
      [] t = K_AvgPool2d -> Tup(<<2, 2, 0>>)
      [] t = K_MaxPool2d -> Tup(<<2, 2, 0>>)
      [] t = K_Linear    -> Tup(<<400, 120>>)
      [] OTHER           -> None

\* the suffixed key used in the entry pool for a supported layer type
PoolSuffix(t) ==
    CASE t = K_Conv2d    -> S_2
      [] t = K_AvgPool2d -> S_1
      [] t = K_MaxPool2d -> S_2b
      [] t = K_Flatten   -> S_3
      [] t = K_Linear    -> S_4
      [] t = K_ReLU      -> S_1
      [] t = K_Sigmoid   -> S_1a
      [] t = K_Tanh      -> S_1b

\* entries an architecture specification is drawn from
EntryPool ==
    {<<t, DocParams(t)>> : t \in DocTypes}
    \cup {<<t \o PoolSuffix(t), DocParams(t)>> : t \in DocTypes}
    \cup { <<K_Conv2d \o S_1, None>>,
           <<K_Linear \o S_5, Tup(<<512>>)>>,
           <<K_Sigmod, None>>,
           <<K_Dropout \o S_1, None>>,
           <<K_Conv2d \o Str(<<"_">>), Tup(<<1, 6, 5, 1, 2>>)>>,
           <<K_Tanh \o Str(<<"-", "1">>), None>>,
           \* suffixes outside ASCII: U+00E9 e-acute, U+00B2 superscript two,
           \* U+FF11 fullwidth digit one, U+00D7 multiplication sign
           <<K_Tanh \o <<Ord("_"), 233>>, None>>,
           <<K_ReLU \o <<Ord("_"), 178>>, None>>,
           <<K_Flatten \o <<Ord("_"), 65297>>, None>>,
           <<K_Tanh \o <<Ord("_"), 215>>, None>> }

\* an OrderedDict has no two entries with the same key
DistinctKeys(a) ==
    \A i, j \in 1..Len(a) : i # j => a[i][1] # a[j][1]

SeqsUpTo(S, n) == UNION {[1..k -> S] : k \in 0..n}

Archs ==
    {a \in SeqsUpTo(EntryPool, MaxLayers) : DistinctKeys(a)}
    \cup {lenet5_arch, lenet5_arch_cifar10}

\* batches of n images: MNIST, CIFAR-10, and 16-channel 5x5 feature maps
Images ==
    UNION {{<<n, 1, 28, 28>>, <<n, 3, 32, 32>>, <<n, 16, 5, 5>>} :
           n \in 1..MaxBatch}

----
(* ConvNet(arch_dict) and model(x) *)

Init ==
    /\ arch \in Archs
    /\ layers = <<>>
    /\ idx = 1
    /\ err = NoError
    /\ pc = "init"
    /\ x0 = ShapeErr
    /\ x = ShapeErr
    /\ fidx = 0
    /\ applied = <<>>
    /\ RnnIdle
    /\ SortIdle
    /\ TrainIdle

\* one iteration of: for layer_type, layer_params in arch_dict.items()
InitLoop ==
    /\ pc = "init"
    /\ idx <= Len(arch)
    /\ LET layer_type == ReSub(arch[idx][1])
           r == BuildLayer(layer_type, arch[idx][2])
       IN  /\ layers' = layers \o r.layer
           /\ err' = r.err
           /\ pc' = IF r.err.raised THEN "raised" ELSE "init"
           /\ idx' = IF r.err.raised THEN idx ELSE idx + 1
    /\ UNCHANGED <<arch, x0, x, fidx, applied, rnnVars, sortVars, trainVars>>

\* the loop is exhausted and the constructor returns the model
InitReturn ==
    /\ pc = "init"
    /\ idx > Len(arch)
    /\ pc' = "ready"
    /\ UNCHANGED <<arch, layers, idx, err, x0, x, fidx, applied,
                   rnnVars, sortVars, trainVars>>

\* y = model(x): entry of forward
ForwardCall ==
    /\ pc = "ready"
    /\ \E img \in Images :
        /\ x0' = img
        /\ x' = img
    /\ fidx' = 1
    /\ applied' = <<>>
    /\ pc' = "forward"
    /\ UNCHANGED <<arch, layers, idx, err, rnnVars, sortVars, trainVars>>

\* one iteration of: for layer in self.layers: x = layer(x)
ForwardLoop ==
    /\ pc = "forward"
    /\ fidx <= Len(layers)
    /\ LET y == ApplyLayer(ForwardLayer(layers, fidx), x)
       IN  /\ x' = IF y = ShapeErr THEN x ELSE y
           /\ pc' = IF y = ShapeErr THEN "forward_raised" ELSE "forward"
           /\ fidx' = IF y = ShapeErr THEN fidx ELSE fidx + 1
    /\ applied' = Append(applied, ForwardLayer(layers, fidx))
    /\ UNCHANGED <<arch, layers, idx, err, x0, rnnVars, sortVars, trainVars>>

\* return x
ForwardReturn ==
    /\ pc = "forward"
    /\ fidx > Len(layers)
    /\ pc' = "returned"
    /\ UNCHANGED <<arch, layers, idx, err, x0, x, fidx, applied,
                   rnnVars, sortVars, trainVars>>

Next ==
    \/ InitLoop
    \/ InitReturn
    \/ ForwardCall
    \/ ForwardLoop
    \/ ForwardReturn

Spec == Init /\ [][Next]_vars

----
(* Reading of the claims: what a key names, what well-formed means *)

\* alphanumeric, as str.isalnum() reads it
IsAlnum(c) == InRanges(c, WordRanges) /\ c # Ord("_")

\* key is t post-fixed with an underscore and an alphanumeric index
IsSuffixed(key, t) ==
    /\ Len(key) >= Len(t) + 2
    /\ SubSeq(key, 1, Len(t)) = t
    /\ key[Len(t) + 1] = Ord("_")
    /\ \A i \in (Len(t) + 2)..Len(key) : IsAlnum(key[i])

\* key names the layer type t, bare or suffixed
Names(key, t) == key = t \/ IsSuffixed(key, t)

\* layer_params has the documented form for layer type t
WellFormed(p, t) ==
    IF Arity(t) = 0 THEN p.none ELSE ~p.none /\ Len(p.t) = Arity(t)

\* the layer the documentation promises for an entry naming t
DocLayer(t, p) == Layer(ClassOf(t), IF Arity(t) = 0 THEN <<>> ELSE p.t)

\* every entry names a documented layer type and has well-formed parameters
AllDocumented(a) ==
    \A i \in 1..Len(a) :
        \E t \in DocTypes : Names(a[i][1], t) /\ WellFormed(a[i][2], t)

Constructed == pc # "init"

\* left-to-right composition of the layers on v
RECURSIVE Compose(_, _)
Compose(ls, v) ==
    IF ls = <<>> THEN v
    ELSE ApplyLayer(ls[Len(ls)], Compose(SubSeq(ls, 1, Len(ls) - 1), v))

----
\* C1: for every architecture whose keys all name documented layer types
\* with well-formed parameters, construction yields exactly one layer per
\* entry, in order, of the type named by the key and with the entry's
\* parameters.  Stated as the claim; the code violates it (see C2).
C1_OneLayerPerEntry ==
    (Constructed /\ AllDocumented(arch)) =>
        /\ ~err.raised
        /\ Len(layers) = Len(arch)
        /\ \A i \in 1..Len(arch) : \A t \in DocTypes :
               Names(arch[i][1], t) =>
                   /\ i <= Len(layers)
                   /\ layers[i] = DocLayer(t, arch[i][2])

\* C2: every layer type the docstring lists is accepted: an entry whose key
\* names it, bare or suffixed, with well-formed parameters appends one layer
\* of that type and raises no error.  Stated as the claim; the code violates
\* it for Sigmoid.
C2_DocumentedTypesAccepted ==
    \A t \in DocTypes :
        /\ (pc = "raised" =>
               ~(Names(arch[idx][1], t) /\ WellFormed(arch[idx][2], t)))
        /\ \A i \in 1..Len(layers) :
               (Names(arch[i][1], t) /\ WellFormed(arch[i][2], t)) =>
                   layers[i].type = ClassOf(t)

\* the outcome of the constructor's iteration on entry i, once it has run
Outcome(i) == IF i <= Len(layers) THEN Built(layers[i]) ELSE Raised(err)

Processed(i) == i <= Len(layers) \/ (pc = "raised" /\ i = idx)

BareTypes == DocTypes \cup {K_Sigmod, K_Dropout}

\* C3: a key post-fixed with an underscore and an alphanumeric index is
\* treated exactly like the bare layer type: the iteration on the suffixed
\* key has the outcome the if-chain gives for the bare type.
C3_SuffixIgnored ==
    \A i \in 1..Len(arch) : \A t \in BareTypes :
        (Processed(i) /\ IsSuffixed(arch[i][1], t)) =>
            Outcome(i) = BuildLayer(t, arch[i][2])

C3_Witness ==
    /\ pc = "ready"
    /\ \E i \in 1..Len(arch) :
        /\ IsSuffixed(arch[i][1], K_Tanh)
        /\ \E j \in 1..Len(arch[i][1]) : arch[i][1][j] \in Ord("a")..Ord("z")
                                          /\ j > Len(K_Tanh)
        /\ layers[i] = Layer("Tanh", <<>>)

\* positions whose key, after suffix removal, is not a documented type
UnsupportedAt(a) == {i \in 1..Len(a) : ReSub(a[i][1]) \notin DocTypes}

Min(S) == CHOOSE m \in S : \A n \in S : m <= n

\* C4: if some key, after suffix removal, is not a supported layer type,
\* construction raises ValueError naming that layer type at the first such
\* key, and no model is returned.  Stated as the claim; the code violates it.
C4_UnsupportedRaises ==
    (Constructed /\ UnsupportedAt(arch) # {}) =>
        /\ pc = "raised"
        /\ idx = Min(UnsupportedAt(arch))
        /\ err = Unsupported(ReSub(arch[idx][1]))

\* C5: forward applies the layers strictly in list order, each exactly once,
\* its result is the left-to-right composition of the layers on the input,
\* and a model with no layers returns its input.
C5_ForwardComposes ==
    pc = "returned" =>
        /\ applied = layers
        /\ x = Compose(layers, x0)
        /\ (layers = <<>> => x = x0)

C5_Witness ==
    /\ pc = "returned"
    /\ Len(layers) >= 2
    /\ layers[1] # layers[2]
    /\ x # x0

\* the shapes the claim lists, as the value of x before layer k is called
LeNet5Shapes(n) ==
    << <<n, 1, 28, 28>>, <<n, 6, 28, 28>>, <<n, 6, 28, 28>>,
       <<n, 6, 14, 14>>, <<n, 6, 14, 14>>, <<n, 16, 10, 10>>,
       <<n, 16, 10, 10>>, <<n, 16, 5, 5>>, <<n, 16, 5, 5>>,
       <<n, 400>>, <<n, 120>>, <<n, 120>>, <<n, 84>>, <<n, 84>>,
       <<n, 10>> >>

\* C6: with the LeNet-5 MNIST architecture a batch of N 1x28x28 images
\* propagates 28x28x1 -> 28x28x6 -> 14x14x6 -> 10x10x16 -> 5x5x16 -> 400 ->
\* 120 -> 84 -> 10, no layer rejects its input, and the output is N x 10.
C6_LeNet5Shapes ==
    \A n \in 1..MaxBatch :
        (arch = lenet5_arch /\ x0 = <<n, 1, 28, 28>>) =>
            /\ pc # "forward_raised"
            /\ pc = "forward" => x = LeNet5Shapes(n)[fidx]
            /\ pc = "returned" => x = <<n, 10>>

C6_Witness ==
    /\ arch = lenet5_arch
    /\ pc = "returned"
    /\ x0 = <<MaxBatch, 1, 28, 28>>
    /\ x = <<MaxBatch, 10>>

Cifar10Classes ==
    <<"Conv2d", "Tanh", "AvgPool2d", "Tanh", "Conv2d", "Tanh", "AvgPool2d",
      "Tanh", "Flatten", "Linear", "Tanh", "Linear", "Tanh", "Linear">>

\* C7: constructing ConvNet from lenet5_arch_cifar10 succeeds and yields the
\* 14-layer model whose Linear layers are the ones the entries specify.
\* Stated as the claim; the code violates it.
C7_Cifar10Constructs ==
    (Constructed /\ arch = lenet5_arch_cifar10) =>
        /\ ~err.raised
        /\ Len(layers) = 14
        /\ \A i \in 1..14 :
            /\ i <= Len(layers)
            /\ layers[i].type = Cifar10Classes[i]
            /\ Cifar10Classes[i] = "Linear" =>
                   /\ Len(arch[i][2].t) = 2
                   /\ layers[i].args = arch[i][2].t

\* C8: in the CIFAR-10 architecture with 3x32x32 input the feature map
\* reaching Flatten is 24x7x7, Flatten yields 1176 features, the input size
\* of Linear_4, and every Linear layer's input size is the output size of
\* the stage before it.  Stated as the claim; the code violates it.
C8_Cifar10Shapes ==
    \A n \in 1..MaxBatch :
        (arch = lenet5_arch_cifar10 /\ Len(layers) >= 10) =>
            /\ Compose(SubSeq(layers, 1, 8), <<n, 3, 32, 32>>)
                   = <<n, 24, 7, 7>>
            /\ Compose(SubSeq(layers, 1, 9), <<n, 3, 32, 32>>) = <<n, 1176>>
            /\ \A i \in 1..Len(layers) :
                   layers[i].type = "Linear" =>
                       Compose(SubSeq(layers, 1, i), <<n, 3, 32, 32>>)
                           # ShapeErr

----
(* Batched Hidden State Correspondence: packed batch versus one sequence   *)
(* at a time.  A vector is abstracted to an integer: 0 is the zero vector, *)
(* the positive integers are non-zero vectors.  The recurrent cell is an   *)
(* affine map of input and hidden state, with weights drawn from           *)
(* RnnWeights; tanh, a bijection applied to each component, is left out.   *)

\* range(5), repeat(1, 5, 1): sequences in the batch
BatchSize == 5
\* view(5, 1, 3): time steps of the padded batch
SeqLen == 5
\* nn.Embedding(num_embeddings=6, ..., padding_idx=0)
NumEmbeddings == 6
PaddingIdx == 0

Tokens == 1..(NumEmbeddings - 1)

\* test_lengths
Lengths(inputs) == [j \in 1..Len(inputs) |-> Len(inputs[j])]

Max(S) == CHOOSE m \in S : \A n \in S : m >= n

\* rnn_utils.pad_sequence(test_inputs): [time][batch index], padded with 0
PadSequence(inputs) ==
    LET T == Max({Len(inputs[j]) : j \in 1..Len(inputs)})
    IN  [t \in 1..T |->
            [j \in 1..Len(inputs) |->
                IF t <= Len(inputs[j]) THEN inputs[j][t] ELSE 0]]

\* test_embedding: the padding index embeds to the zero vector, every other
\* token to a non-zero vector of its own (the rows of the weight are drawn
\* from a normal distribution)
Embedding(tok) == IF tok = PaddingIdx THEN 0 ELSE tok

\* batch_sizes of a sequence-first batch without packing: every sequence
\* takes part in every time step
BatchSizesPadded(lengths) ==
    [t \in 1..lengths[1] |-> Len(lengths)]

\* batch_sizes counting one time step too many for each sequence
BatchSizesOffByOne(lengths) ==
    [t \in 1..lengths[1] |->
        Cardinality({j \in 1..Len(lengths) : lengths[j] >= t - 1})]

\* batch_sizes of pack_padded_sequence: sequences still running at step t
BatchSizes(lengths) ==
    [t \in 1..lengths[1] |->
        Cardinality({j \in 1..Len(lengths) : lengths[j] >= t})]

\* position in data before the entries of time step t
RECURSIVE Offset(_, _)
Offset(bs, t) == IF t <= 1 THEN 0 ELSE Offset(bs, t - 1) + bs[t - 1]

\* data of the time steps t.. of a padded batch
RECURSIVE PackFrom(_, _, _)
PackFrom(padded, bs, t) ==
    IF t > Len(bs) THEN <<>>
    ELSE SubSeq(padded[t], 1, bs[t]) \o PackFrom(padded, bs, t + 1)

\* rnn_utils.pack_padded_sequence(input, lengths), lengths sorted descending
PackPaddedSequence(padded, lengths) ==
    LET bs == BatchSizes(lengths)
    IN  [data |-> PackFrom(padded, bs, 1), batch_sizes |-> bs]

\* rnn_utils.pad_packed_sequence(sequence)[0]: padding positions are zero
PadPackedSequence(packed) ==
    LET bs == packed.batch_sizes
    IN  [t \in 1..Len(bs) |->
            [j \in 1..bs[1] |->
                IF j <= bs[t] THEN packed.data[Offset(bs, t) + j] ELSE 0]]

\* one step of the recurrent unit: h_t = tanh(W_ih x_t + W_hh h_(t-1) + b).
\* With weights drawn from a continuous distribution h_t is never the zero
\* vector, and different pairs of input and hidden state among finitely many
\* give different h_t.
Cell(w, xin, h) == w.ih * xin + w.hh * h + w.b

\* test_rnn(seq, h) on one sequence: the outputs of all time steps
RECURSIVE RunRNN(_, _, _)
RunRNN(w, seq, h) ==
    IF seq = <<>> THEN <<>>
    ELSE LET h1 == Cell(w, Head(seq), h)
         IN  <<h1>> \o RunRNN(w, Tail(seq), h1)

\* the final hidden state test_rnn returns with the outputs out
FinalHidden(out, h) == IF out = <<>> THEN h ELSE out[Len(out)]

----
(* Inputs of the RNN scenario *)

\* sequence j of the notebook repeats token j; the second form counts up
TokenSeq(form, j, n) ==
    [t \in 1..n |->
        IF form = "repeat" THEN j ELSE ((j + t) % (NumEmbeddings - 1)) + 1]

SortedDescending(l) == \A j \in 1..(Len(l) - 1) : l[j] >= l[j + 1]

\* batches sorted by length descending whose longest sequence has SeqLen
Batches ==
    {[j \in 1..BatchSize |-> TokenSeq(f[j], j, l[j])] :
        f \in [1..BatchSize -> {"repeat", "count"}],
        l \in {m \in [1..BatchSize -> 1..SeqLen] :
                  m[1] = SeqLen /\ SortedDescending(m)}}

\* weights of nn.RNN(input_size=3, hidden_size=2).  hh exceeds ih times the
\* largest embedding, which keeps Cell one-to-one on embeddings and positive
\* hidden states, and the order of the tokens in the hidden state.
RnnWeights ==
    {[ih |-> 1, hh |-> NumEmbeddings, b |-> 0],
     [ih |-> 2, hh |-> 2 * NumEmbeddings + 1, b |-> 3]}

\* torch.randn(1, 1, 2): a non-zero vector
InitialHidden == {1, 3}

----
(* The cells of the notebook *)

RnnInit ==
    /\ NetIdle
    /\ SortIdle
    /\ TrainIdle
    /\ test_inputs \in Batches
    /\ test_rnn \in RnnWeights
    /\ \E h \in InitialHidden : test_h0 = [j \in 1..BatchSize |-> h]
    /\ test_embedded = <<>>
    /\ test_packed_input = <<>>
    /\ hx = <<>>
    /\ step = 0
    /\ test_output_packed = <<>>
    /\ test_hn_batch = <<>>
    /\ test_outputs = <<>>
    /\ test_hn_states = <<>>
    /\ test_output_unpacked = <<>>
    /\ rpc = "embed"

\* test_embedded = test_embedding(test_inputs_padded)
Embed ==
    /\ rpc = "embed"
    /\ test_embedded' =
           LET padded == PadSequence(test_inputs)
           IN  [t \in 1..Len(padded) |->
                   [j \in 1..BatchSize |-> Embedding(padded[t][j])]]
    /\ rpc' = "pack"
    /\ UNCHANGED <<test_inputs, test_rnn, test_h0, test_packed_input, hx,
                   step, test_output_packed, test_hn_batch, test_outputs,
                   test_hn_states, test_output_unpacked, netVars, sortVars,
                   trainVars>>

\* test_packed_input = rnn_utils.pack_padded_sequence(test_embedded,
\* test_lengths), and entry of test_rnn(test_packed_input, test_h0)
Pack ==
    /\ rpc = "pack"
    /\ test_packed_input' =
           PackPaddedSequence(test_embedded, Lengths(test_inputs))
    /\ hx' = test_h0
    /\ step' = 1
    /\ test_output_packed' =
           [data |-> <<>>, batch_sizes |-> test_packed_input'.batch_sizes]
    /\ rpc' = "batched"
    /\ UNCHANGED <<test_inputs, test_rnn, test_h0, test_embedded,
                   test_hn_batch, test_outputs, test_hn_states,
                   test_output_unpacked, netVars, sortVars,
                   trainVars>>

\* one time step of test_rnn on the packed input: only the first
\* batch_sizes[step] sequences advance
PackedStep ==
    /\ rpc = "batched"
    /\ step <= Len(test_packed_input.batch_sizes)
    /\ LET bs == test_packed_input.batch_sizes
           off == Offset(bs, step)
           h1 == [j \in 1..BatchSize |->
                     IF j <= bs[step]
                     THEN Cell(test_rnn, test_packed_input.data[off + j],
                               hx[j])
                     ELSE hx[j]]
       IN  /\ hx' = h1
           /\ test_output_packed' =
                  [test_output_packed EXCEPT
                      !.data = @ \o SubSeq(h1, 1, bs[step])]
    /\ step' = step + 1
    /\ UNCHANGED <<test_inputs, test_rnn, test_h0, test_embedded,
                   test_packed_input, test_hn_batch, test_outputs,
                   test_hn_states, test_output_unpacked, rpc, netVars, sortVars,
                   trainVars>>

\* test_output_packed, test_hn_batch = test_rnn(...) returns
PackedReturn ==
    /\ rpc = "batched"
    /\ step > Len(test_packed_input.batch_sizes)
    /\ test_hn_batch' = hx
    /\ rpc' = "samples"
    /\ UNCHANGED <<test_inputs, test_rnn, test_h0, test_embedded,
                   test_packed_input, hx, step, test_output_packed,
                   test_outputs, test_hn_states, test_output_unpacked,
                   netVars, sortVars,
                   trainVars>>

\* one iteration of: for j in range(5)
SampleLoop ==
    /\ rpc = "samples"
    /\ Len(test_outputs) < BatchSize
    /\ LET j == Len(test_outputs) + 1
           seq_length == Lengths(test_inputs)[j]
           seq_embedded ==
               SubSeq([t \in 1..SeqLen |-> test_embedded[t][j]],
                      1, seq_length)
           test_h0_single == test_h0[1]
           out_j == RunRNN(test_rnn, seq_embedded, test_h0_single)
           h_t_j == FinalHidden(out_j, test_h0_single)
       IN  /\ test_outputs' = Append(test_outputs, out_j)
           /\ test_hn_states' = Append(test_hn_states, h_t_j)
    /\ UNCHANGED <<test_inputs, test_rnn, test_h0, test_embedded,
                   test_packed_input, hx, step, test_output_packed,
                   test_hn_batch, test_output_unpacked, rpc, netVars, sortVars,
                   trainVars>>

\* test_output_unpacked, _ = rnn_utils.pad_packed_sequence(test_output_packed)
Unpack ==
    /\ rpc = "samples"
    /\ Len(test_outputs) = BatchSize
    /\ test_output_unpacked' = PadPackedSequence(test_output_packed)
    /\ rpc' = "done"
    /\ UNCHANGED <<test_inputs, test_rnn, test_h0, test_embedded,
                   test_packed_input, hx, step, test_output_packed,
                   test_hn_batch, test_outputs, test_hn_states, netVars, sortVars,
                   trainVars>>

RnnNext ==
    \/ Embed
    \/ Pack
    \/ PackedStep
    \/ PackedReturn
    \/ SampleLoop
    \/ Unpack

SpecRNN == RnnInit /\ [][RnnNext]_vars

----
\* C9: for a batch sorted by length descending and sharing one initial
\* hidden state, the final hidden state of the packed batched computation
\* for sequence j equals the final hidden state of running sequence j alone
\* for lengths[j] steps from that initial state.
C9_FinalHiddenMatches ==
    rpc = "done" =>
        \A j \in 1..BatchSize : test_hn_batch[j] = test_hn_states[j]

C9_Witness ==
    /\ rpc = "done"
    /\ Len(test_inputs[BatchSize]) < Len(test_inputs[2])
    /\ Len(test_inputs[2]) < SeqLen
    /\ test_hn_batch[1] # test_hn_batch[BatchSize]
    /\ test_hn_batch[2] # test_h0[2]

\* C10: after unpacking, the batched output of sequence j at each time step
\* below lengths[j] equals the per-sample output at that step, and at each
\* step from lengths[j] on it is zero.
C10_UnpackedOutputMatches ==
    rpc = "done" =>
        \A j \in 1..BatchSize : \A t \in 1..SeqLen :
            IF t <= Len(test_inputs[j])
            THEN test_output_unpacked[t][j] = test_outputs[j][t]
            ELSE test_output_unpacked[t][j] = 0

C10_Witness ==
    /\ rpc = "done"
    /\ \E j \in 1..BatchSize :
        /\ Len(test_inputs[j]) < SeqLen
        /\ test_output_unpacked[SeqLen][j] = 0
        /\ \A t \in 1..Len(test_inputs[j]) : test_output_unpacked[t][j] # 0

----
(* Sequence Tensor Batching: Option 1 sorts the padded input by length and *)
(* restores the order later, Option 2 sorts the input-target pairs.        *)
(* Batch indices are 1-based here and 0-based in the notebook.             *)

\* Bounds
MaxPairs == 3
MaxInputLen == 3

\* input_, target = zip(*batch)
Inputs(b) == [j \in 1..Len(b) |-> b[j][1]]
Targets(b) == [j \in 1..Len(b) |-> b[j][2]]

\* index.repeat(max_length, 1)
Repeat(index, n) == [t \in 1..n |-> index]

\* tensor.gather(dim=1, index=index)
Gather(tensor, index) ==
    [t \in 1..Len(index) |->
        [j \in 1..Len(index[t]) |-> tensor[t][index[t][j]]]]

IndexOrders(n) ==
    {p \in [1..n -> 1..n] : \A i, j \in 1..n : i # j => p[i] # p[j]}

\* lengths.sort(descending=True)[1]: the call does not pass stable=True, so
\* the order of equal lengths is not promised and every index order that
\* sorts the lengths is a possible result.  The recorded run (lengths
\* 3, 5, 2, 3, 4 give indices 1, 4, 0, 3, 2) is one of them.
DescendingArgsorts(l) ==
    {p \in IndexOrders(Len(l)) :
        \A j \in 1..(Len(l) - 1) : l[p[j]] >= l[p[j + 1]]}

\* an argsort in descending order
ArgSortDescending(s) ==
    [i \in 1..Len(s) |->
        CHOOSE k \in 1..Len(s) :
            Cardinality({m \in 1..Len(s) : s[m] > s[k]}) = i - 1]

\* tensor.sort()[1] on a tensor of distinct values: position of the i-th
\* smallest value
ArgSort(s) ==
    [i \in 1..Len(s) |->
        CHOOSE k \in 1..Len(s) :
            Cardinality({m \in 1..Len(s) : s[m] < s[k]}) = i - 1]

\* key=lambda b: len(b[0])
SortKey(b) == Len(b[1])

\* sorted(b, key=SortKey, reverse=True): stable, so pairs with equal keys
\* keep their order
Sorted(b) ==
    LET rank(i) ==
            Cardinality({m \in 1..Len(b) : SortKey(b[m]) > SortKey(b[i])})
            + Cardinality({m \in 1..(i - 1) : SortKey(b[m]) = SortKey(b[i])})
            + 1
    IN  [r \in 1..Len(b) |-> b[CHOOSE i \in 1..Len(b) : rank(i) = r]]

\* input_orig = rnn_utils.pad_sequence(input_)
InputOrig == PadSequence(Inputs(batch))

\* sorted_lengths
SortedLengths == [j \in 1..Len(sort_idx) |-> Lengths(Inputs(batch))[sort_idx[j]]]

\* padded_input_presorted, presorted_lengths
PaddedInputPresorted == PadSequence(Inputs(sorted_batch))
PresortedLengths == Lengths(Inputs(sorted_batch))

----
(* Inputs of the batching scenario *)

SortTokens == {1, 2}
TargetLengths == {1, 3}

\* pairs whose input and target repeat one token
Pairs ==
    {<<[t \in 1..n |-> tok], [t \in 1..m |-> tok]>> :
        n \in 1..MaxInputLen, m \in TargetLengths, tok \in SortTokens}

Batches2 == UNION {[1..k -> Pairs] : k \in 2..MaxPairs}

----
(* The cells of the notebook *)

SortInit ==
    /\ NetIdle
    /\ RnnIdle
    /\ TrainIdle
    /\ batch \in Batches2
    /\ sort_idx = <<>>
    /\ input_sorted = <<>>
    /\ input_packed = <<>>
    /\ input_unpacked = <<>>
    /\ orig_idx = <<>>
    /\ input_restored = <<>>
    /\ sorted_batch = <<>>
    /\ packed_input_presorted = <<>>
    /\ spc = "sort"

\* sorted_lengths, sort_idx = lengths.sort(descending=True)
SortLengths ==
    /\ spc = "sort"
    /\ sort_idx' \in DescendingArgsorts(Lengths(Inputs(batch)))
    /\ spc' = "gather"
    /\ UNCHANGED <<batch, input_sorted, input_packed, input_unpacked,
                   orig_idx, input_restored, sorted_batch,
                   packed_input_presorted, netVars, rnnVars, trainVars>>

\* input_sorted = input_orig.gather(dim=1,
\*                                  index=sort_idx.repeat(max_length, 1))
GatherSorted ==
    /\ spc = "gather"
    /\ LET max_length == SortedLengths[1]
       IN  input_sorted' = Gather(InputOrig, Repeat(sort_idx, max_length))
    /\ spc' = "pack"
    /\ UNCHANGED <<batch, sort_idx, input_packed, input_unpacked, orig_idx,
                   input_restored, sorted_batch, packed_input_presorted,
                   netVars, rnnVars, trainVars>>

\* input_packed = rnn_utils.pack_padded_sequence(input_sorted, sorted_lengths)
PackSorted ==
    /\ spc = "pack"
    /\ input_packed' = PackPaddedSequence(input_sorted, SortedLengths)
    /\ spc' = "unpack"
    /\ UNCHANGED <<batch, sort_idx, input_sorted, input_unpacked, orig_idx,
                   input_restored, sorted_batch, packed_input_presorted,
                   netVars, rnnVars, trainVars>>

\* input_unpacked, _ = rnn_utils.pad_packed_sequence(input_packed)
UnpackSorted ==
    /\ spc = "unpack"
    /\ input_unpacked' = PadPackedSequence(input_packed)
    /\ spc' = "argsort"
    /\ UNCHANGED <<batch, sort_idx, input_sorted, input_packed, orig_idx,
                   input_restored, sorted_batch, packed_input_presorted,
                   netVars, rnnVars, trainVars>>

\* _, orig_idx = sort_idx.sort()
ArgsortSortIdx ==
    /\ spc = "argsort"
    /\ orig_idx' = ArgSort(sort_idx)
    /\ spc' = "restore"
    /\ UNCHANGED <<batch, sort_idx, input_sorted, input_packed,
                   input_unpacked, input_restored, sorted_batch,
                   packed_input_presorted, netVars, rnnVars, trainVars>>

\* input_restored = input_unpacked.gather(dim=1,
\*                                        index=orig_idx.repeat(max_length, 1))
Restore ==
    /\ spc = "restore"
    /\ LET max_length == SortedLengths[1]
       IN  input_restored' =
               Gather(input_unpacked, Repeat(orig_idx, max_length))
    /\ spc' = "option2"
    /\ UNCHANGED <<batch, sort_idx, input_sorted, input_packed,
                   input_unpacked, orig_idx, sorted_batch,
                   packed_input_presorted, netVars, rnnVars, trainVars>>

\* sorted_batch = sorted(batch, key=lambda b: len(b[0]), reverse=True)
SortTogether ==
    /\ spc = "option2"
    /\ sorted_batch' = Sorted(batch)
    /\ spc' = "pack2"
    /\ UNCHANGED <<batch, sort_idx, input_sorted, input_packed,
                   input_unpacked, orig_idx, input_restored,
                   packed_input_presorted, netVars, rnnVars, trainVars>>

\* packed_input_presorted = rnn_utils.pack_padded_sequence(
\*     padded_input_presorted, presorted_lengths)
PackPresorted ==
    /\ spc = "pack2"
    /\ packed_input_presorted' =
           PackPaddedSequence(PaddedInputPresorted, PresortedLengths)
    /\ spc' = "done"
    /\ UNCHANGED <<batch, sort_idx, input_sorted, input_packed,
                   input_unpacked, orig_idx, input_restored, sorted_batch,
                   netVars, rnnVars, trainVars>>

SortNext ==
    \/ SortLengths
    \/ GatherSorted
    \/ PackSorted
    \/ UnpackSorted
    \/ ArgsortSortIdx
    \/ Restore
    \/ SortTogether
    \/ PackPresorted

SpecSort == SortInit /\ [][SortNext]_vars

----
Restored == spc \in {"option2", "pack2", "done"}

\* C11: for every batch, orig_idx = argsort(sort_idx) is the inverse
\* permutation of sort_idx, and gathering the sorted, packed and unpacked
\* padded input by orig_idx restores the original padded input.
C11_ArgsortRestores ==
    Restored =>
        /\ \A j \in 1..Len(batch) :
               sort_idx[orig_idx[j]] = j /\ orig_idx[sort_idx[j]] = j
        /\ input_restored = InputOrig

C11_Witness ==
    /\ Restored
    /\ \E j \in 1..Len(batch) : sort_idx[sort_idx[j]] # j
    /\ input_sorted # InputOrig
    /\ input_restored = InputOrig

----
(* train(model, training_data, optimiser, loss_function, num_epochs).      *)
(* Mini-batches are numbered 1..training_data; the accumulated gradient is *)
(* the sequence of mini-batches whose backward passes wrote into .grad.    *)

\* Bounds
MaxEpochs == 2
MaxMiniBatches == 2

\* if (batch_idx + 1) % 1000 == 0
PrintEvery == 1000

\* values of loss.item()
LossItems == {1, 2}

\* a call that leaves the accumulated gradients in place
KeepGrad(g) == g

\* optimiser.zero_grad()
ZeroGrad(g) == <<>>

\* loss.backward(): adds the gradient of the loss to the accumulated one
Backward(g, l) == Append(g, l.of)

\* optimiser.step(): applies the accumulated gradient
OptimiserStep(u, g) == Append(u, g)

\* the orders in which a shuffling loader can yield n mini-batches
LoaderOrders(n) ==
    {p \in [1..n -> 1..n] : \A i, j \in 1..n : i # j => p[i] # p[j]}

TrainInit ==
    /\ NetIdle
    /\ RnnIdle
    /\ SortIdle
    /\ num_epochs \in 0..MaxEpochs
    /\ training_data \in 0..MaxMiniBatches
    /\ epoch = 0
    /\ order = <<>>
    /\ batch_idx = 0
    /\ grad = <<>>
    /\ backwards = 0
    /\ output = 0
    /\ loss = [of |-> 0, item |-> 0]
    /\ total_loss = 0
    /\ updates = <<>>
    /\ tpc = "epoch"

\* for epoch in range(num_epochs): total_loss = 0.0, and the loader starts
\* a new pass over the data
EpochStart ==
    /\ tpc = "epoch"
    /\ epoch < num_epochs
    /\ total_loss' = 0
    /\ order' \in LoaderOrders(training_data)
    /\ batch_idx' = 0
    /\ tpc' = "batch"
    /\ UNCHANGED <<num_epochs, training_data, epoch, grad, backwards, output,
                   loss, updates, netVars, rnnVars, sortVars>>

\* images, labels = batch; optimiser.zero_grad()
ZeroGradCall ==
    /\ tpc = "batch"
    /\ batch_idx < Len(order)
    /\ grad' = ZeroGrad(grad)
    /\ backwards' = 0
    /\ tpc' = "forward"
    /\ UNCHANGED <<num_epochs, training_data, epoch, order, batch_idx,
                   output, loss, total_loss, updates, netVars, rnnVars,
                   sortVars>>

\* output = model(images)
ForwardPass ==
    /\ tpc = "forward"
    /\ output' = order[batch_idx + 1]
    /\ tpc' = "loss"
    /\ UNCHANGED <<num_epochs, training_data, epoch, order, batch_idx, grad,
                   backwards, loss, total_loss, updates, netVars, rnnVars,
                   sortVars>>

\* loss = loss_function(output, labels)
LossCall ==
    /\ tpc = "loss"
    /\ \E v \in LossItems : loss' = [of |-> output, item |-> v]
    /\ tpc' = "backward"
    /\ UNCHANGED <<num_epochs, training_data, epoch, order, batch_idx, grad,
                   backwards, output, total_loss, updates, netVars, rnnVars,
                   sortVars>>

\* loss.backward()
BackwardPass ==
    /\ tpc = "backward"
    /\ grad' = Backward(grad, loss)
    /\ backwards' = backwards + 1
    /\ tpc' = "step"
    /\ UNCHANGED <<num_epochs, training_data, epoch, order, batch_idx,
                   output, loss, total_loss, updates, netVars, rnnVars,
                   sortVars>>

\* optimiser.step()
StepCall ==
    /\ tpc = "step"
    /\ updates' = OptimiserStep(updates, grad)
    /\ tpc' = "report"
    /\ UNCHANGED <<num_epochs, training_data, epoch, order, batch_idx, grad,
                   backwards, output, loss, total_loss, netVars, rnnVars,
                   sortVars>>

\* total_loss += loss.item(), the progress print, and the next mini-batch
Report ==
    /\ tpc = "report"
    /\ total_loss' =
           IF (batch_idx + 1) % PrintEvery = 0
           THEN 0 ELSE total_loss + loss.item
    /\ batch_idx' = batch_idx + 1
    /\ tpc' = "batch"
    /\ UNCHANGED <<num_epochs, training_data, epoch, order, grad, backwards,
                   output, loss, updates, netVars, rnnVars, sortVars>>

\* the loader is exhausted: next epoch
EpochEnd ==
    /\ tpc = "batch"
    /\ batch_idx >= Len(order)
    /\ epoch' = epoch + 1
    /\ tpc' = "epoch"
    /\ UNCHANGED <<num_epochs, training_data, order, batch_idx, grad,
                   backwards, output, loss, total_loss, updates, netVars,
                   rnnVars, sortVars>>

\* print("Finished Training")
Finish ==
    /\ tpc = "epoch"
    /\ epoch >= num_epochs
    /\ tpc' = "finished"
    /\ UNCHANGED <<num_epochs, training_data, epoch, order, batch_idx, grad,
                   backwards, output, loss, total_loss, updates, netVars,
                   rnnVars, sortVars>>

TrainNext ==
    \/ EpochStart
    \/ ZeroGradCall
    \/ ForwardPass
    \/ LossCall
    \/ BackwardPass
    \/ StepCall
    \/ Report
    \/ EpochEnd
    \/ Finish

SpecTrain == TrainInit /\ [][TrainNext]_vars

----
\* C13: every mini-batch is processed as zero_grad, forward, loss, backward,
\* optimiser step: when the optimiser steps exactly one backward pass has
\* run since the last zero_grad, on the loss of the current mini-batch, and
\* the accumulated gradient never holds more than one mini-batch.
C13_OneBackwardPerStep ==
    /\ Len(grad) <= 1
    /\ tpc = "step" =>
           /\ backwards = 1
           /\ output = order[batch_idx + 1]
           /\ loss.of = output
           /\ grad = <<order[batch_idx + 1]>>
    /\ \A i \in 1..Len(updates) : Len(updates[i]) = 1

C13_Witness ==
    /\ tpc = "finished"
    /\ num_epochs = MaxEpochs
    /\ training_data = MaxMiniBatches
    /\ Len(updates) = MaxEpochs * MaxMiniBatches
    /\ updates[1] # updates[2]

====
